---- MODULE Spec2Model ----
(***************************************************************************)
(* Model of gen_keys.py: the key provisioning pipeline.                    *)
(*                                                                         *)
(* State: the filesystem (one content per derived path), the main          *)
(* program's position, one task per catalog entry in the process pool, and *)
(* the two result lists generate_keys builds.  History variables record    *)
(* what a run wrote (written), the filesystem the run started from (fs0),  *)
(* the files removed by hand before the run (deleted), the calls made to   *)
(* the public-key extraction tool (extract_calls) and to the subject       *)
(* resolver (resolved), and who opened each file (writers).  rival is the  *)
(* same generator running in a second, overlapping invocation.             *)
(***************************************************************************)
EXTENDS Naturals, Sequences, FiniteSets, Bags, TLC

VARIABLES
    fs,               \* path -> content of the file at that path
    certs_dir,        \* whether CERTS_PATH exists
    pc,               \* position of main()
    task,             \* catalog entry -> state of its future / worker task
    platform_results, \* the list built at gen_keys.py:180
    apex_results,     \* the list built at gen_keys.py:181
    run,              \* number of the current invocation of the program
    clock,            \* wall-clock time of the current invocation
    nfail,            \* task failures injected so far
    fs0,              \* history: fs when the current invocation started
    written,          \* history: paths opened for writing by this invocation
    deleted,          \* history: files removed by hand since the last invocation ended
    extract_calls,    \* history: bag of <<key path, output path>> passed to the tool
    partial,          \* history: entries whose latest generation stopped midway
    overtaken,        \* history: a task finished before one submitted earlier in its list
    workers,          \* size of the process pool (gen_keys.py:167)
    raised,           \* entries whose exception is propagating out of generate_keys
    writers,          \* history: path -> who opened it for writing in this invocation
    resolved,         \* history: the calls made to subject_params, oldest first
    rival             \* the same generator running in an overlapping invocation

vars == <<fs, certs_dir, pc, task, platform_results, apex_results, run, clock,
          nfail, fs0, written, deleted, extract_calls, partial, overtaken,
          workers, raised, writers, resolved, rival>>

---------------------------------------------------------------------------
(* Bounds of the model *)

MaxRuns == 2
MaxWorkers == 2
MaxFailures == 1
MaxDeletes == 1

---------------------------------------------------------------------------
(* The catalog (module gen_keys_py.keys) *)

platform_keys == <<"releasekey", "platform">>

apex_keys == <<"com.android.vndk", "com.android.wifi">>

Range(s) == {s[i] : i \in 1..Len(s)}

PlatformEntries == Range(platform_keys)

ApexEntries == Range(apex_keys)

Entries == PlatformEntries \cup ApexEntries

---------------------------------------------------------------------------
(* Paths.  A path is <<directory, file name>>; relative paths resolve      *)
(* against the working directory.                                          *)

CERTS_PATH == "~/.android-certs"

CWD == "."

RSA_PLATFORM_KEY_SIZE == 4096

RSA_APEX_KEY_SIZE == 4096

key_platform(cert) == <<CERTS_PATH, cert \o ".pem">>

platform_x509_file(cert) == <<CWD, cert \o ".x509.pem">>

\* Mutant: the entry's name is left out of the file name.
PlatformPk8Unnamed(cert) == <<CWD, "platform.pk8">>

platform_pk8_file(cert) == <<CWD, cert \o ".pk8">>

\* Mutant: the entry's name is left out of the file name.
KeyApexUnnamed(apex) == <<CWD, "apex.pem">>

key_apex(apex) == <<CWD, apex \o ".pem">>

apex_x509_file(apex) == <<CWD, apex \o ".certificate.override.x509.pem">>

apex_pk8_file(apex) == <<CWD, apex \o ".certificate.override.pk8">>

avbpubkey_file(apex) == <<CWD, apex \o ".avbpubkey">>

pubkey_file(apex) == <<CWD, apex \o ".pubkey">>

android_bp_file == <<CWD, "Android.bp">>

mk_file == <<CWD, "keys.mk">>

PlatformPaths(cert) ==
    {key_platform(cert), platform_x509_file(cert), platform_pk8_file(cert)}

ApexPaths(apex) ==
    {key_apex(apex), apex_x509_file(apex), apex_pk8_file(apex),
     avbpubkey_file(apex), pubkey_file(apex)}

EntryPaths(e) == IF e \in PlatformEntries THEN PlatformPaths(e) ELSE ApexPaths(e)

BundlePaths == UNION {EntryPaths(e) : e \in Entries}

ConfigPaths == {android_bp_file, mk_file}

AllPaths == BundlePaths \cup ConfigPaths

---------------------------------------------------------------------------
(* File contents *)

Missing == [type |-> "missing"]

\* A file created or truncated by open(..., 'wb') and never filled.
Empty == [type |-> "empty"]

\* A file that was there before the first modelled invocation.
Old == [type |-> "old"]

exists(f, path) == f[path] # Missing

\* The key pair made by key.generate_key in the task of entry e of this
\* invocation: key material is random, so two generations never agree.
GenerateKey(r, e, size) == [run |-> r, name |-> e, bits |-> size]

dump_privatekey(key) == [type |-> "pem", key |-> key]

private_bytes_pkcs8(key) == [type |-> "pk8", key |-> key, encryption |-> "none"]

---------------------------------------------------------------------------
(* Subject resolver *)

\* Python's None as a resolver result / as the absent override map.
None == <<>>

defaults ==
    [C |-> <<"US">>, ST |-> <<"California">>, L |-> <<"Mountain View">>,
     O |-> <<"Android">>, OU |-> <<"Android">>, CN |-> <<"Android">>,
     emailAddress |-> <<"android@android.com">>]

\* Mutant: the override map is never looked at.
subject_params_no_override(param, custom_param) ==
    IF param \in DOMAIN defaults THEN defaults[param] ELSE None

\* gen_keys.py:34-49.  The dict the function updates is a local built anew by
\* every call (d below); {1: value} is the one-element tuple <<value>>.
subject_params(param, custom_param) ==
    LET d == IF DOMAIN custom_param # {} /\ param \in DOMAIN custom_param
             THEN (param :> <<custom_param[param]>>) @@ defaults
             ELSE defaults
    IN  IF param \in DOMAIN d THEN d[param] ELSE None

Subject(custom_cn) ==
    [C |-> subject_params("C", None)[1],
     ST |-> subject_params("ST", None)[1],
     L |-> subject_params("L", None)[1],
     O |-> subject_params("O", None)[1],
     OU |-> subject_params("OU", None)[1],
     CN |-> subject_params("CN", custom_cn)[1],
     emailAddress |-> subject_params("emailAddress", None)[1]]

ValidityDays == 10000

\* Mutant: the issuer is built from the defaults alone (set_issuer is not
\* handed the certificate's own subject).
X509DefaultIssuer(key, custom_cn, now) ==
    [type |-> "x509", key |-> key, signed_by |-> key, hash |-> "sha256",
     subject |-> Subject(custom_cn), issuer |-> Subject(None),
     serial |-> 1, notBefore |-> now,
     notAfter |-> now + ValidityDays * 24 * 60 * 60]

X509(key, custom_cn, now) ==
    [type |-> "x509", key |-> key, signed_by |-> key, hash |-> "sha256",
     subject |-> Subject(custom_cn), issuer |-> Subject(custom_cn),
     serial |-> 1, notBefore |-> now,
     notAfter |-> now + ValidityDays * 24 * 60 * 60]

---------------------------------------------------------------------------
(* Existence checks and public-key routing *)

\* Mutant: the check lost its "not" (any(path.exists() ...)).
PlatformMissingAnyExists(f, cert) ==
    \E path \in {key_platform(cert), platform_x509_file(cert), platform_pk8_file(cert)} :
        exists(f, path)

\* Mutant: only the private key is looked for.
PlatformMissingKeyOnly(f, cert) == ~exists(f, key_platform(cert))

\* gen_keys.py:57, the condition under which the platform generator generates.
PlatformMissing(f, cert) ==
    \E path \in {key_platform(cert), platform_x509_file(cert), platform_pk8_file(cert)} :
        ~exists(f, path)

\* Mutant: only the public-key name the entry routes to counts.
ApexMissingRouted(f, apex) ==
    \/ \E path \in {key_apex(apex), apex_x509_file(apex), apex_pk8_file(apex)} :
          ~exists(f, path)
    \/ ~exists(f, IF apex = "com.android.vndk" THEN pubkey_file(apex)
                  ELSE avbpubkey_file(apex))

\* Mutant: "or" for "and" between the two public-key names.
ApexMissingEither(f, apex) ==
    \/ \E path \in {key_apex(apex), apex_x509_file(apex), apex_pk8_file(apex)} :
          ~exists(f, path)
    \/ (~exists(f, pubkey_file(apex)) \/ ~exists(f, avbpubkey_file(apex)))

\* gen_keys.py:109-111, the condition under which the apex generator generates.
ApexMissing(f, apex) ==
    \/ \E path \in {key_apex(apex), apex_x509_file(apex), apex_pk8_file(apex)} :
          ~exists(f, path)
    \/ (~exists(f, pubkey_file(apex)) /\ ~exists(f, avbpubkey_file(apex)))

\* Mutant: the legacy name is never chosen.
PubkeyOutputAlwaysAvb(apex) == avbpubkey_file(apex)

\* gen_keys.py:118-121, the output path handed to extract_public_key.
PubkeyOutput(apex) ==
    IF apex = "com.android.vndk" THEN pubkey_file(apex) ELSE avbpubkey_file(apex)

\* AvbTool.extract_public_key: the public key of the key file it reads.
AvbPublicKey(content) == [type |-> "avbpubkey", key |-> content.key]

\* gen_keys.py:22-31: the output is opened 'wb' (created or truncated), then
\* the tool reads the key file and writes its public key to the output.
extract_public_key(f, key_apex_path, pubkey_output_path) ==
    IF f[key_apex_path].type = "pem"
    THEN [f EXCEPT ![pubkey_output_path] = AvbPublicKey(f[key_apex_path])]
    ELSE [f EXCEPT ![pubkey_output_path] = Empty]

\* Path.write_bytes
write_bytes(f, path, content) == [f EXCEPT ![path] = content]

\* gen_keys.py:99
PlatformResult(cert) ==
    <<key_platform(cert), platform_x509_file(cert), platform_pk8_file(cert)>>

\* Mutant: only the public-key path the entry routes to is returned.
ApexResultRoutedOnly(apex) ==
    <<key_apex(apex), apex_x509_file(apex), apex_pk8_file(apex), PubkeyOutput(apex)>>

\* gen_keys.py:157-163
ApexResult(apex) ==
    <<key_apex(apex), apex_x509_file(apex), apex_pk8_file(apex),
      avbpubkey_file(apex), pubkey_file(apex)>>

---------------------------------------------------------------------------
(* The generators as functions of the filesystem *)

\* The filesystem after the step at position st of the generator of entry e,
\* made on filesystem f by invocation r at time now.
Step(f, e, st, r, now) ==
    IF e \in PlatformEntries
    THEN LET key == GenerateKey(r, e, RSA_PLATFORM_KEY_SIZE)
         IN  CASE st = "key" -> write_bytes(f, key_platform(e), dump_privatekey(key))
               [] st = "x509" -> write_bytes(f, platform_x509_file(e), X509(key, None, now))
               [] OTHER -> write_bytes(f, platform_pk8_file(e), private_bytes_pkcs8(key))
    ELSE LET key == GenerateKey(r, e, RSA_APEX_KEY_SIZE)
         IN  CASE st = "key" -> write_bytes(f, key_apex(e), dump_privatekey(key))
               [] st = "extract" -> extract_public_key(f, key_apex(e), PubkeyOutput(e))
               [] st = "x509" -> write_bytes(f, apex_x509_file(e), X509(key, [CN |-> e], now))
               [] OTHER -> write_bytes(f, apex_pk8_file(e), private_bytes_pkcs8(key))

\* The position that follows st in the generator of entry e.
After(e, st) ==
    CASE st = "key" -> IF e \in PlatformEntries THEN "x509" ELSE "extract"
      [] st = "extract" -> "x509"
      [] st = "x509" -> "pk8"
      [] OTHER -> "done"

\* gen_keys.py:52-99 with nothing running beside it.
generate_single_platform_key(f, cert, r, now) ==
    IF PlatformMissing(f, cert)
    THEN Step(Step(Step(f, cert, "key", r, now), cert, "x509", r, now), cert, "pk8", r, now)
    ELSE f

\* gen_keys.py:102-163 with nothing running beside it.
generate_single_apex_key(f, apex, r, now) ==
    IF ApexMissing(f, apex)
    THEN Step(Step(Step(Step(f, apex, "key", r, now), apex, "extract", r, now),
                   apex, "x509", r, now), apex, "pk8", r, now)
    ELSE f

---------------------------------------------------------------------------
(* Worker tasks *)

Idle == [st |-> "idle", skipped |-> FALSE, result |-> None]

RunningStates == {"key", "extract", "x509", "pk8"}

Running == {e \in Entries : task[e].st \in RunningStates}

Finished(e) == task[e].st \in {"done", "failed"}

\* Mutant: the workers never take a task from the queue.
WorkerFreeNever == FALSE

\* The pool never runs more tasks than it has worker processes.
WorkerFree == Cardinality(Running) < workers

Returned(e, skip, res) ==
    [task EXCEPT ![e] = [st |-> "done", skipped |-> skip, result |-> res]]

Goto(e, st) == [task EXCEPT ![e].st = st]

\* The catalog list entry e is submitted from, and its index in that list.
FamilyOf(e) == IF e \in PlatformEntries THEN platform_keys ELSE apex_keys

IndexOf(e) == CHOOSE i \in 1..Len(FamilyOf(e)) : FamilyOf(e)[i] = e

\* The task of e finishes now: note whether a task submitted before it in
\* the same list is still unfinished.
Finishes(e) ==
    overtaken' = (overtaken \/ \E i \in 1..(IndexOf(e) - 1) : ~Finished(FamilyOf(e)[i]))

\* who opens path for writing.
Opened(who, path) == [writers EXCEPT ![path] = @ \cup {who}]

TaskUnchanged ==
    UNCHANGED <<certs_dir, pc, platform_results, apex_results, run, clock,
                nfail, fs0, deleted, workers, raised, resolved, rival>>

\* gen_keys.py:52-57 and 99: a worker takes the task; the bundle is there.
PlatformSkip(cert) ==
    /\ cert \in PlatformEntries
    /\ task[cert].st = "pending"
    /\ WorkerFree
    /\ ~PlatformMissing(fs, cert)
    /\ task' = Returned(cert, TRUE, PlatformResult(cert))
    /\ UNCHANGED <<fs, written, writers, extract_calls, partial>>
    /\ TaskUnchanged
    /\ Finishes(cert)

\* Mutant: the generation begins with the PKCS8 file.
PlatformStartPk8First(cert) ==
    /\ cert \in PlatformEntries
    /\ task[cert].st = "pending"
    /\ WorkerFree
    /\ PlatformMissing(fs, cert)
    /\ task' = Goto(cert, "pk8")
    /\ UNCHANGED <<fs, written, writers, extract_calls, partial>>
    /\ TaskUnchanged
    /\ UNCHANGED overtaken

\* gen_keys.py:52-57: a worker takes the task; something is missing.
PlatformStart(cert) ==
    /\ cert \in PlatformEntries
    /\ task[cert].st = "pending"
    /\ WorkerFree
    /\ PlatformMissing(fs, cert)
    /\ task' = Goto(cert, "key")
    /\ UNCHANGED <<fs, written, writers, extract_calls, partial>>
    /\ TaskUnchanged
    /\ UNCHANGED overtaken

\* gen_keys.py:59-63
PlatformWriteKey(cert) ==
    /\ cert \in PlatformEntries
    /\ task[cert].st = "key"
    /\ IF certs_dir
       THEN /\ fs' = write_bytes(fs, key_platform(cert),
                        dump_privatekey(GenerateKey(run, cert, RSA_PLATFORM_KEY_SIZE)))
            /\ written' = written \cup {key_platform(cert)}
            /\ writers' = Opened(cert, key_platform(cert))
            /\ task' = Goto(cert, "x509")
            /\ partial' = partial \cup {cert}
            /\ UNCHANGED overtaken
       ELSE /\ task' = Goto(cert, "failed")
            /\ UNCHANGED <<fs, written, writers, partial>>
            /\ Finishes(cert)
    /\ UNCHANGED extract_calls
    /\ TaskUnchanged

\* gen_keys.py:66-84
PlatformWriteX509(cert) ==
    /\ cert \in PlatformEntries
    /\ task[cert].st = "x509"
    /\ fs' = write_bytes(fs, platform_x509_file(cert),
                X509(GenerateKey(run, cert, RSA_PLATFORM_KEY_SIZE), None, clock))
    /\ written' = written \cup {platform_x509_file(cert)}
    /\ writers' = Opened(cert, platform_x509_file(cert))
    /\ task' = Goto(cert, "pk8")
    /\ UNCHANGED <<extract_calls, partial>>
    /\ TaskUnchanged
    /\ UNCHANGED overtaken

\* gen_keys.py:87-99
PlatformWritePk8(cert) ==
    /\ cert \in PlatformEntries
    /\ task[cert].st = "pk8"
    /\ fs' = write_bytes(fs, platform_pk8_file(cert),
                private_bytes_pkcs8(GenerateKey(run, cert, RSA_PLATFORM_KEY_SIZE)))
    /\ written' = written \cup {platform_pk8_file(cert)}
    /\ writers' = Opened(cert, platform_pk8_file(cert))
    /\ task' = Returned(cert, FALSE, PlatformResult(cert))
    /\ partial' = partial \ {cert}
    /\ UNCHANGED extract_calls
    /\ TaskUnchanged
    /\ Finishes(cert)

\* gen_keys.py:102-111 and 157-163: a worker takes the task; the bundle is there.
ApexSkip(apex) ==
    /\ apex \in ApexEntries
    /\ task[apex].st = "pending"
    /\ WorkerFree
    /\ ~ApexMissing(fs, apex)
    /\ task' = Returned(apex, TRUE, ApexResult(apex))
    /\ UNCHANGED <<fs, written, writers, extract_calls, partial>>
    /\ TaskUnchanged
    /\ Finishes(apex)

\* gen_keys.py:102-111: a worker takes the task; something is missing.
ApexStart(apex) ==
    /\ apex \in ApexEntries
    /\ task[apex].st = "pending"
    /\ WorkerFree
    /\ ApexMissing(fs, apex)
    /\ task' = Goto(apex, "key")
    /\ UNCHANGED <<fs, written, writers, extract_calls, partial>>
    /\ TaskUnchanged
    /\ UNCHANGED overtaken

\* gen_keys.py:113-115
ApexWriteKey(apex) ==
    /\ apex \in ApexEntries
    /\ task[apex].st = "key"
    /\ fs' = write_bytes(fs, key_apex(apex),
                dump_privatekey(GenerateKey(run, apex, RSA_APEX_KEY_SIZE)))
    /\ written' = written \cup {key_apex(apex)}
    /\ writers' = Opened(apex, key_apex(apex))
    /\ task' = Goto(apex, "extract")
    /\ partial' = partial \cup {apex}
    /\ UNCHANGED extract_calls
    /\ TaskUnchanged
    /\ UNCHANGED overtaken

\* gen_keys.py:118-121
ApexExtract(apex) ==
    /\ apex \in ApexEntries
    /\ task[apex].st = "extract"
    /\ fs' = extract_public_key(fs, key_apex(apex), PubkeyOutput(apex))
    /\ written' = written \cup {PubkeyOutput(apex)}
    /\ writers' = Opened(apex, PubkeyOutput(apex))
    /\ extract_calls' = extract_calls (+) SetToBag({<<key_apex(apex), PubkeyOutput(apex)>>})
    /\ task' = Goto(apex, "x509")
    /\ UNCHANGED partial
    /\ TaskUnchanged
    /\ UNCHANGED overtaken

\* gen_keys.py:124-142
ApexWriteX509(apex) ==
    /\ apex \in ApexEntries
    /\ task[apex].st = "x509"
    /\ fs' = write_bytes(fs, apex_x509_file(apex),
                X509(GenerateKey(run, apex, RSA_APEX_KEY_SIZE), [CN |-> apex], clock))
    /\ written' = written \cup {apex_x509_file(apex)}
    /\ writers' = Opened(apex, apex_x509_file(apex))
    /\ task' = Goto(apex, "pk8")
    /\ UNCHANGED <<extract_calls, partial>>
    /\ TaskUnchanged
    /\ UNCHANGED overtaken

\* gen_keys.py:145-163
ApexWritePk8(apex) ==
    /\ apex \in ApexEntries
    /\ task[apex].st = "pk8"
    /\ fs' = write_bytes(fs, apex_pk8_file(apex),
                private_bytes_pkcs8(GenerateKey(run, apex, RSA_APEX_KEY_SIZE)))
    /\ written' = written \cup {apex_pk8_file(apex)}
    /\ writers' = Opened(apex, apex_pk8_file(apex))
    /\ task' = Returned(apex, FALSE, ApexResult(apex))
    /\ partial' = partial \ {apex}
    /\ UNCHANGED extract_calls
    /\ TaskUnchanged
    /\ Finishes(apex)

\* The file the step at position st of the generator of e writes.
StepTarget(e, st) ==
    IF e \in PlatformEntries
    THEN CASE st = "key" -> key_platform(e)
           [] st = "x509" -> platform_x509_file(e)
           [] OTHER -> platform_pk8_file(e)
    ELSE CASE st = "key" -> key_apex(e)
           [] st = "extract" -> PubkeyOutput(e)
           [] st = "x509" -> apex_x509_file(e)
           [] OTHER -> apex_pk8_file(e)

\* A step of a generator raises (key generation, encoding, the extraction
\* tool or the write fails).  Either the step's file was not opened yet, or
\* it was created/truncated by open(.., 'wb') and not filled.  The exception
\* is stored in the task's future and ends this task only.
Raises(e, opened) ==
    /\ task[e].st \in RunningStates
    /\ nfail' = nfail + 1
    /\ task' = Goto(e, "failed")
    /\ IF opened
       THEN /\ fs' = write_bytes(fs, StepTarget(e, task[e].st), Empty)
            /\ written' = written \cup {StepTarget(e, task[e].st)}
            /\ writers' = Opened(e, StepTarget(e, task[e].st))
            /\ partial' = partial \cup {e}
            /\ extract_calls' =
                 IF task[e].st = "extract"
                 THEN extract_calls (+) SetToBag({<<key_apex(e), PubkeyOutput(e)>>})
                 ELSE extract_calls
       ELSE UNCHANGED <<fs, written, writers, partial, extract_calls>>
    /\ UNCHANGED <<certs_dir, pc, platform_results, apex_results, run, clock,
                   fs0, deleted, workers, raised, resolved, rival>>
    /\ Finishes(e)

\* The failures injected into a sequence of invocations are bounded.
TaskFails(e, opened) ==
    /\ nfail < MaxFailures
    /\ Raises(e, opened)

---------------------------------------------------------------------------
(* The same generator in an overlapping invocation of the program *)

\* The number of the overlapping invocation: its keys are its own.
RivalRun == run + 1

\* Mutant: the check looks for the private key only.
BundleMissingKeyOnly(f, e) ==
    ~exists(f, IF e \in PlatformEntries THEN key_platform(e) ELSE key_apex(e))

\* gen_keys.py:57 and 109-111, the existence check of the generator of e.
BundleMissing(f, e) ==
    IF e \in PlatformEntries THEN PlatformMissing(f, e) ELSE ApexMissing(f, e)

RivalUnchanged ==
    UNCHANGED <<certs_dir, pc, task, platform_results, apex_results, run, clock,
                nfail, fs0, written, deleted, extract_calls, partial, overtaken,
                workers, raised, writers, resolved>>

\* gen_keys.py:57/109-111 and 99/157-163: the bundle is there.
RivalSkip ==
    /\ rival.st = "pending"
    /\ ~BundleMissing(fs, rival.name)
    /\ rival' = [rival EXCEPT !.st = "done", !.skipped = TRUE,
                               !.result = IF rival.name \in PlatformEntries
                                          THEN PlatformResult(rival.name)
                                          ELSE ApexResult(rival.name)]
    /\ UNCHANGED fs
    /\ RivalUnchanged

\* gen_keys.py:57/109-111: something is missing.
RivalStart ==
    /\ rival.st = "pending"
    /\ BundleMissing(fs, rival.name)
    /\ rival' = [rival EXCEPT !.st = "key"]
    /\ UNCHANGED fs
    /\ RivalUnchanged

\* gen_keys.py:59-97/113-155: the next write of the generation.
RivalStep ==
    /\ rival.st \in RunningStates
    /\ fs' = Step(fs, rival.name, rival.st, RivalRun, clock)
    /\ rival' = IF After(rival.name, rival.st) = "done"
                THEN [rival EXCEPT !.st = "done",
                                   !.result = IF rival.name \in PlatformEntries
                                              THEN PlatformResult(rival.name)
                                              ELSE ApexResult(rival.name)]
                ELSE [rival EXCEPT !.st = After(rival.name, rival.st)]
    /\ RivalUnchanged

---------------------------------------------------------------------------
(* generate_keys and main *)

\* Mutant: the futures are read last submitted first.
FutureIndexReversed(i, n) == n + 1 - i

\* gen_keys.py:180-181: the i-th element of a result list is read from the
\* i-th future of the n submitted, in submission order.
FutureIndex(i, n) == i

\* Mutant: shutdown(wait=False).
ShutdownNoWait == TRUE

\* gen_keys.py:170, leaving the with block: Executor.__exit__ calls
\* shutdown(wait=True), which returns once every submitted task has finished.
ShutdownComplete == \A e \in Entries : Finished(e)

MainUnchanged ==
    UNCHANGED <<fs, run, clock, nfail, fs0, written, deleted, extract_calls, partial,
                overtaken, workers, writers, resolved, rival>>

\* Mutant: the tasks are submitted without the directory being made.
MkdirLeftOut ==
    /\ pc = "mkdir"
    /\ pc' = "submit_platform"
    /\ UNCHANGED <<certs_dir, task, platform_results, apex_results>>
    /\ MainUnchanged
    /\ UNCHANGED raised

\* gen_keys.py:167-168
Mkdir ==
    /\ pc = "mkdir"
    /\ certs_dir' = TRUE
    /\ pc' = "submit_platform"
    /\ UNCHANGED <<task, platform_results, apex_results>>
    /\ MainUnchanged
    /\ UNCHANGED raised

\* gen_keys.py:171-174
SubmitPlatform ==
    /\ pc = "submit_platform"
    /\ task' = [e \in Entries |->
                  IF e \in PlatformEntries THEN [task[e] EXCEPT !.st = "pending"]
                  ELSE task[e]]
    /\ pc' = "submit_apex"
    /\ UNCHANGED <<certs_dir, platform_results, apex_results>>
    /\ MainUnchanged
    /\ UNCHANGED raised

\* gen_keys.py:175-178
SubmitApex ==
    /\ pc = "submit_apex"
    /\ task' = [e \in Entries |->
                  IF e \in ApexEntries THEN [task[e] EXCEPT !.st = "pending"]
                  ELSE task[e]]
    /\ pc' = "collect_platform"
    /\ UNCHANGED <<certs_dir, platform_results, apex_results>>
    /\ MainUnchanged
    /\ UNCHANGED raised

\* gen_keys.py:180, future.result() of a task that returned.
CollectPlatform ==
    /\ pc = "collect_platform"
    /\ LET n == Len(platform_keys)
           i == Len(platform_results) + 1
           e == platform_keys[FutureIndex(i, n)]
       IN  /\ task[e].st = "done"
           /\ platform_results' = Append(platform_results, task[e].result)
           /\ pc' = IF i = n THEN "collect_apex" ELSE pc
    /\ UNCHANGED <<certs_dir, task, apex_results>>
    /\ MainUnchanged
    /\ UNCHANGED raised

\* gen_keys.py:180, future.result() re-raises the exception of a failed task.
CollectPlatformRaises ==
    /\ pc = "collect_platform"
    /\ LET n == Len(platform_keys)
           i == Len(platform_results) + 1
           e == platform_keys[FutureIndex(i, n)]
       IN  /\ task[e].st = "failed"
           /\ raised' = {e}
    /\ pc' = "shutdown_raise"
    /\ UNCHANGED <<certs_dir, task, platform_results, apex_results>>
    /\ MainUnchanged

\* gen_keys.py:181, future.result() of a task that returned.
CollectApex ==
    /\ pc = "collect_apex"
    /\ LET n == Len(apex_keys)
           i == Len(apex_results) + 1
           e == apex_keys[FutureIndex(i, n)]
       IN  /\ task[e].st = "done"
           /\ apex_results' = Append(apex_results, task[e].result)
           /\ pc' = IF i = n THEN "shutdown" ELSE pc
    /\ UNCHANGED <<certs_dir, task, platform_results>>
    /\ MainUnchanged
    /\ UNCHANGED raised

\* gen_keys.py:181, future.result() re-raises the exception of a failed task.
CollectApexRaises ==
    /\ pc = "collect_apex"
    /\ LET n == Len(apex_keys)
           i == Len(apex_results) + 1
           e == apex_keys[FutureIndex(i, n)]
       IN  /\ task[e].st = "failed"
           /\ raised' = {e}
    /\ pc' = "shutdown_raise"
    /\ UNCHANGED <<certs_dir, task, platform_results, apex_results>>
    /\ MainUnchanged

\* gen_keys.py:170 and 183: the with block is left normally; generate_keys
\* returns the two lists and main goes on (gen_keys.py:232-233).
Shutdown ==
    /\ pc = "shutdown"
    /\ ShutdownComplete
    /\ pc' = "android_bp"
    /\ UNCHANGED <<certs_dir, task, platform_results, apex_results>>
    /\ MainUnchanged
    /\ UNCHANGED raised

\* gen_keys.py:170: the with block is left by the exception; after the
\* shutdown the exception leaves generate_keys and main (gen_keys.py:232, 237):
\* the program ends with a traceback and a non-zero exit status.
ShutdownRaises ==
    /\ pc = "shutdown_raise"
    /\ ShutdownComplete
    /\ pc' = "failed"
    /\ UNCHANGED <<certs_dir, task, platform_results, apex_results>>
    /\ MainUnchanged
    /\ UNCHANGED raised

AndroidBp == [type |-> "Android.bp", certificates |-> apex_keys]

\* gen_keys.py:186-196
generate_android_bp ==
    /\ pc = "android_bp"
    /\ fs' = write_bytes(fs, android_bp_file, AndroidBp)
    /\ written' = written \cup {android_bp_file}
    /\ writers' = Opened("main", android_bp_file)
    /\ pc' = "makefile"
    /\ UNCHANGED <<certs_dir, task, platform_results, apex_results, run, clock,
                   nfail, fs0, deleted, extract_calls, partial>>
    /\ UNCHANGED <<overtaken, workers, raised, resolved, rival>>

KeysMk == [type |-> "keys.mk", overrides |-> apex_keys]

\* gen_keys.py:199-228
generate_makefile ==
    /\ pc = "makefile"
    /\ fs' = write_bytes(fs, mk_file, KeysMk)
    /\ written' = written \cup {mk_file}
    /\ writers' = Opened("main", mk_file)
    /\ pc' = "done"
    /\ UNCHANGED <<certs_dir, task, platform_results, apex_results, run, clock,
                   nfail, fs0, deleted, extract_calls, partial>>
    /\ UNCHANGED <<overtaken, workers, raised, resolved, rival>>

---------------------------------------------------------------------------
(* The environment: the program is run again; files are removed by hand *)

Ended == pc \in {"done", "failed", "exited"}

\* Someone removes one bundle file while the program is not running.
Delete(path) ==
    /\ Ended
    /\ run < MaxRuns
    /\ path \in BundlePaths
    /\ exists(fs, path)
    /\ Cardinality(IF pc = "exited" THEN deleted ELSE {}) < MaxDeletes
    /\ fs' = [fs EXCEPT ![path] = Missing]
    /\ deleted' = (IF pc = "exited" THEN deleted ELSE {}) \cup {path}
    /\ pc' = "exited"
    /\ UNCHANGED <<certs_dir, task, platform_results, apex_results, run, clock,
                   nfail, fs0, written, extract_calls, partial>>
    /\ UNCHANGED <<overtaken, workers, raised, writers, resolved, rival>>

\* gen_keys.py:237: a new invocation of the program on the same directories.
NextRun ==
    /\ Ended
    /\ run < MaxRuns
    /\ run' = run + 1
    /\ clock' = clock + 1
    /\ pc' = "mkdir"
    /\ task' = [e \in Entries |-> Idle]
    /\ platform_results' = <<>>
    /\ apex_results' = <<>>
    /\ fs0' = fs
    /\ written' = {}
    /\ deleted' = IF pc = "exited" THEN deleted ELSE {}
    /\ extract_calls' = EmptyBag
    /\ UNCHANGED <<fs, certs_dir, nfail, partial>>
    /\ overtaken' = FALSE
    /\ raised' = {}
    /\ writers' = [p \in AllPaths |-> {}]
    /\ UNCHANGED <<workers, resolved, rival>>

---------------------------------------------------------------------------
(* Specifications *)

\* A first invocation on empty directories.
Init ==
    /\ fs = [p \in AllPaths |-> Missing]
    /\ certs_dir = FALSE
    /\ pc = "mkdir"
    /\ task = [e \in Entries |-> Idle]
    /\ platform_results = <<>>
    /\ apex_results = <<>>
    /\ run = 1
    /\ clock = 1
    /\ nfail = 0
    /\ fs0 = fs
    /\ written = {}
    /\ deleted = {}
    /\ extract_calls = EmptyBag
    /\ partial = {}
    /\ overtaken = FALSE
    /\ workers = MaxWorkers
    /\ raised = {}
    /\ writers = [p \in AllPaths |-> {}]
    /\ resolved = <<>>
    /\ rival = Idle

\* The steps of a generator that finds something missing.
Generation(e) ==
    \/ PlatformStart(e)
    \/ PlatformWriteKey(e)
    \/ PlatformWriteX509(e)
    \/ PlatformWritePk8(e)
    \/ ApexStart(e)
    \/ ApexWriteKey(e)
    \/ ApexExtract(e)
    \/ ApexWriteX509(e)
    \/ ApexWritePk8(e)

Generator(e) ==
    \/ PlatformSkip(e)
    \/ ApexSkip(e)
    \/ Generation(e)

\* main() when no task raises.
Main ==
    \/ Mkdir
    \/ SubmitPlatform
    \/ SubmitApex
    \/ CollectPlatform
    \/ CollectApex
    \/ Shutdown
    \/ generate_android_bp
    \/ generate_makefile

\* Invocations of the program, one after the other, in which tasks may fail.
Next ==
    \/ \E e \in Entries : Generator(e)
    \/ \E e \in Entries, opened \in BOOLEAN : TaskFails(e, opened)
    \/ Main
    \/ CollectPlatformRaises
    \/ CollectApexRaises
    \/ ShutdownRaises
    \/ NextRun

Spec == Init /\ [][Next]_vars

\* Invocations of the program, one after the other, between which bundle
\* files are removed by hand.
NextRepair ==
    \/ \E e \in Entries : Generator(e)
    \/ Main
    \/ \E path \in BundlePaths : Delete(path)
    \/ NextRun

SpecRepair == Init /\ [][NextRepair]_vars

\* One call of a generator on one catalog entry, in a directory that holds
\* any combination of the entry's files.
InitCall ==
    /\ \E e \in Entries :
         /\ task = [x \in Entries |-> IF x = e THEN [Idle EXCEPT !.st = "pending"] ELSE Idle]
         /\ \E present \in SUBSET EntryPaths(e) :
              fs = [p \in AllPaths |-> IF p \in present THEN Old ELSE Missing]
    /\ certs_dir = TRUE
    /\ pc = "call"
    /\ platform_results = <<>>
    /\ apex_results = <<>>
    /\ run = 1
    /\ clock = 1
    /\ nfail = 0
    /\ fs0 = fs
    /\ written = {}
    /\ deleted = {}
    /\ extract_calls = EmptyBag
    /\ partial = {}
    /\ overtaken = FALSE
    /\ workers = MaxWorkers
    /\ raised = {}
    /\ writers = [p \in AllPaths |-> {}]
    /\ resolved = <<>>
    /\ rival = Idle

NextCall ==
    \/ \E e \in Entries : Generator(e)
    \/ \E e \in Entries, opened \in BOOLEAN : TaskFails(e, opened)

SpecCall == InitCall /\ [][NextCall]_vars

\* One invocation on empty directories, on a host with any number of
\* processors (mp.cpu_count(), gen_keys.py:167), in which any task may raise.
\* On empty directories every existence check finds its bundle missing.
InitSingle ==
    /\ fs = [p \in AllPaths |-> Missing]
    /\ certs_dir = FALSE
    /\ pc = "mkdir"
    /\ task = [e \in Entries |-> Idle]
    /\ platform_results = <<>>
    /\ apex_results = <<>>
    /\ run = 1
    /\ clock = 1
    /\ nfail = 0
    /\ fs0 = fs
    /\ written = {}
    /\ deleted = {}
    /\ extract_calls = EmptyBag
    /\ partial = {}
    /\ overtaken = FALSE
    /\ workers \in 1..MaxWorkers
    /\ raised = {}
    /\ writers = [p \in AllPaths |-> {}]
    /\ resolved = <<>>
    /\ rival = Idle

\* main() when some future.result() raises.
MainRaises ==
    \/ CollectPlatformRaises
    \/ CollectApexRaises
    \/ ShutdownRaises

NextSingle ==
    \/ \E e \in Entries : Generation(e)
    \/ \E e \in Entries, opened \in BOOLEAN : Raises(e, opened)
    \/ Main
    \/ MainRaises

SpecSingle == InitSingle /\ [][NextSingle]_vars

\* Scheduling: a worker process that runs a task keeps running it (every
\* step of a generator terminates), an idle worker takes the next queued
\* task, and the main process keeps running.  Nothing forces a task to raise.
Fairness ==
    /\ \A e \in Entries : WF_vars(Generation(e))
    /\ WF_vars(Main \/ MainRaises)

SpecLive == SpecSingle /\ Fairness

\* Two invocations of the program that overlap on empty directories, at the
\* point where both call the generator for the same entry.
InitRace ==
    /\ \E e \in Entries :
         /\ task = [x \in Entries |-> IF x = e THEN [Idle EXCEPT !.st = "pending"] ELSE Idle]
         /\ rival = [st |-> "pending", skipped |-> FALSE, result |-> None, name |-> e]
    /\ fs = [p \in AllPaths |-> Missing]
    /\ certs_dir = TRUE
    /\ pc = "call"
    /\ platform_results = <<>>
    /\ apex_results = <<>>
    /\ run = 1
    /\ clock = 1
    /\ nfail = 0
    /\ fs0 = fs
    /\ written = {}
    /\ deleted = {}
    /\ extract_calls = EmptyBag
    /\ partial = {}
    /\ overtaken = FALSE
    /\ workers = MaxWorkers
    /\ raised = {}
    /\ writers = [p \in AllPaths |-> {}]
    /\ resolved = <<>>

NextRace ==
    \/ \E e \in Entries : Generator(e)
    \/ RivalSkip
    \/ RivalStart
    \/ RivalStep

SpecRace == InitRace /\ [][NextRace]_vars

\* Calls of subject_params, one after the other, on field names and override
\* maps of any kind: the seven fields and two other names; no map, maps that
\* hold the field asked for, and maps that do not.
MaxCalls == 2

Params == {"C", "ST", "L", "O", "OU", "CN", "emailAddress", "bogus", "DC"}

Overrides ==
    << None, [CN |-> "X"], [C |-> "DE"], [bogus |-> "B"],
       [CN |-> "com.android.wifi", O |-> "Lineage"] >>

\* A finished call: its arguments and how it ended.  The function has no
\* raise statement and no operation that can raise on these arguments
\* (dict.get, a guarded subscript), so every call returns.
Call(param, custom_param) ==
    [param |-> param, custom_param |-> custom_param,
     outcome |-> [kind |-> "return", value |-> subject_params(param, custom_param)]]

Resolve(param, custom_param) ==
    /\ pc = "resolve"
    /\ Len(resolved) < MaxCalls
    /\ resolved' = Append(resolved, Call(param, custom_param))
    /\ UNCHANGED <<fs, certs_dir, pc, task, platform_results, apex_results, run,
                   clock, nfail, fs0, written, deleted, extract_calls, partial,
                   overtaken, workers, raised, writers, rival>>

InitResolve ==
    /\ fs = [p \in AllPaths |-> Missing]
    /\ certs_dir = FALSE
    /\ pc = "resolve"
    /\ task = [e \in Entries |-> Idle]
    /\ platform_results = <<>>
    /\ apex_results = <<>>
    /\ run = 1
    /\ clock = 1
    /\ nfail = 0
    /\ fs0 = fs
    /\ written = {}
    /\ deleted = {}
    /\ extract_calls = EmptyBag
    /\ partial = {}
    /\ overtaken = FALSE
    /\ workers = MaxWorkers
    /\ raised = {}
    /\ writers = [p \in AllPaths |-> {}]
    /\ resolved = <<>>
    /\ rival = Idle

NextResolve ==
    \E param \in Params : \E i \in 1..Len(Overrides) : Resolve(param, Overrides[i])

SpecResolve == InitResolve /\ [][NextResolve]_vars

---------------------------------------------------------------------------
(* Claims *)

\* The files a complete bundle of entry e consists of.
RequiredPaths(e) ==
    IF e \in PlatformEntries
    THEN {<<CERTS_PATH, e \o ".pem">>, <<CWD, e \o ".x509.pem">>, <<CWD, e \o ".pk8">>}
    ELSE {<<CWD, e \o ".pem">>, <<CWD, e \o ".certificate.override.x509.pem">>,
          <<CWD, e \o ".certificate.override.pk8">>,
          IF e = "com.android.vndk" THEN <<CWD, e \o ".pubkey">>
          ELSE <<CWD, e \o ".avbpubkey">>}

\* The task of e went past its existence check and generates (or generated).
Generates(e) ==
    \/ task[e].st \in RunningStates \cup {"failed"}
    \/ (task[e].st = "done" /\ ~task[e].skipped)

Skipped(e) == task[e].st = "done" /\ task[e].skipped

\* C1: a call of generate_single_platform_key on an entry whose three output
\* paths all exist writes or modifies no file and returns the three paths.
C1_PlatformIdempotency ==
    \A cert \in PlatformEntries :
        ( /\ task[cert].st # "idle"
          /\ exists(fs0, <<CERTS_PATH, cert \o ".pem">>)
          /\ exists(fs0, <<CWD, cert \o ".x509.pem">>)
          /\ exists(fs0, <<CWD, cert \o ".pk8">>) )
        => /\ task[cert].st \in {"pending", "done"}
           /\ written = {}
           /\ fs = fs0
           /\ task[cert].st = "done" =>
                task[cert].result = << <<CERTS_PATH, cert \o ".pem">>,
                                       <<CWD, cert \o ".x509.pem">>,
                                       <<CWD, cert \o ".pk8">> >>

C1_Witness ==
    \E cert \in PlatformEntries :
        /\ \A p \in PlatformPaths(cert) : exists(fs0, p)
        /\ task[cert].st = "done"

\* C2: generate_single_apex_key skips generation, writing nothing, exactly when
\* the private key, the certificate and the PKCS8 file exist and at least one
\* of <name>.pubkey, <name>.avbpubkey exists, whichever of the two the entry
\* routes to; in every other combination of existing files it generates.
C2_ApexPresenceRule ==
    \A apex \in ApexEntries :
        LET present ==
              /\ exists(fs0, <<CWD, apex \o ".pem">>)
              /\ exists(fs0, <<CWD, apex \o ".certificate.override.x509.pem">>)
              /\ exists(fs0, <<CWD, apex \o ".certificate.override.pk8">>)
              /\ \/ exists(fs0, <<CWD, apex \o ".pubkey">>)
                 \/ exists(fs0, <<CWD, apex \o ".avbpubkey">>)
        IN  task[apex].st \notin {"idle", "pending"} =>
              /\ present => (Skipped(apex) /\ written = {} /\ fs = fs0)
              /\ ~present => Generates(apex)
              /\ (~present /\ task[apex].st \notin {"key", "failed"}) =>
                    <<CWD, apex \o ".pem">> \in written

\* The bundle is found present through the public-key name the entry does
\* not route to.
C2_Witness ==
    \E apex \in ApexEntries :
        /\ Skipped(apex)
        /\ ~exists(fs0, PubkeyOutput(apex))
        /\ \E p \in {pubkey_file(apex), avbpubkey_file(apex)} : exists(fs0, p)

\* C3: after a first invocation on empty directories in which no task failed,
\* a later invocation writes no bundle file, every generator finds its bundle
\* present, and the files and their contents are the same after it as before.
C3_RunIdempotency ==
    (run >= 2 /\ nfail = 0) =>
        /\ written \cap BundlePaths = {}
        /\ \A p \in BundlePaths : fs[p] = fs0[p]
        /\ \A e \in Entries : ~Generates(e)
        /\ \A e \in Entries : \A p \in RequiredPaths(e) : exists(fs0, p)
        /\ pc = "done" => fs = fs0

C3_Witness ==
    /\ run = 2
    /\ nfail = 0
    /\ pc = "done"
    /\ \A e \in Entries : Skipped(e)

\* C4: when exactly one file of a complete bundle was removed (every bundle
\* being complete before) and the program is run again (pc is "exited" from
\* the removal until then), every file of that
\* bundle is rewritten from one key generated in that run, and no file of
\* any other entry is written.
C4_FullRegeneration ==
    \A e \in Entries : \A gone \in RequiredPaths(e) :
        ( /\ run >= 2
          /\ pc # "exited"
          /\ deleted = {gone}
          /\ \A x \in Entries : \A p \in RequiredPaths(x) :
                exists(fs0, p) \/ p = gone )
        => /\ \A x \in Entries \ {e} : written \cap EntryPaths(x) = {}
           /\ \A x \in Entries \ {e} : ~Generates(x)
           /\ task[e].st \notin {"idle", "pending"} => Generates(e)
           /\ pc = "done" =>
                /\ RequiredPaths(e) \subseteq written
                /\ \A p \in RequiredPaths(e) :
                      /\ fs[p].type \in {"pem", "x509", "pk8", "avbpubkey"}
                      /\ fs[p].key.run = run
                      /\ fs[p].key.name = e

\* A certificate was removed and the run after that has ended.
C4_Witness ==
    /\ run = 2
    /\ pc = "done"
    /\ \E e \in Entries :
         /\ deleted = {IF e \in PlatformEntries THEN platform_x509_file(e)
                       ELSE apex_x509_file(e)}
         /\ RequiredPaths(e) \subseteq written

\* The existing files of the bundle of e are whole and come from one key.
OneGeneration(f, e) ==
    \A p \in RequiredPaths(e) : \A q \in RequiredPaths(e) :
        /\ f[p].type \in {"pem", "x509", "pk8", "avbpubkey"}
        /\ f[q].type \in {"pem", "x509", "pk8", "avbpubkey"}
        /\ f[p].key = f[q].key

\* C5: a bundle whose generation was interrupted after some but not all of
\* its files were written is not reported present by the next existence
\* check; a bundle accepted as present never mixes generations.
C5_PartialTreatedAbsent ==
    \A e \in Entries :
        Skipped(e) => (e \notin partial /\ OneGeneration(fs, e))

\* C6: a generation of the apex generator calls the extraction tool exactly
\* once, with the private key path it just wrote as input and with
\* <name>.pubkey as output for com.android.vndk, <name>.avbpubkey otherwise.
C6_PubkeyRouting ==
    \A apex \in ApexEntries :
        LET src == <<CWD, apex \o ".pem">>
            dst == IF apex = "com.android.vndk" THEN <<CWD, apex \o ".pubkey">>
                   ELSE <<CWD, apex \o ".avbpubkey">>
            calls == {c \in BagToSet(extract_calls) : c[1] = src}
            n == CopiesIn(<<src, dst>>, extract_calls)
        IN  /\ calls \subseteq {<<src, dst>>}
            /\ task[apex].st \in {"idle", "pending", "key"} => n = 0
            /\ Skipped(apex) => n = 0
            /\ task[apex].st = "extract" => (n = 0 /\ src \in written)
            /\ task[apex].st = "failed" => n <= 1
            /\ (task[apex].st \in {"x509", "pk8"} \/ (task[apex].st = "done" /\ ~task[apex].skipped))
                  => (n = 1 /\ src \in written /\ dst \in written)

C6_Witness ==
    /\ CopiesIn(<<key_apex("com.android.vndk"), pubkey_file("com.android.vndk")>>,
                extract_calls) = 1
    /\ CopiesIn(<<key_apex("com.android.wifi"), avbpubkey_file("com.android.wifi")>>,
                extract_calls) = 1
    /\ \A apex \in ApexEntries : task[apex].st = "done"

\* C7 as stated: the result of the apex generator has exactly one of its two
\* public-key slots populated (a path reported whose file exists), the one
\* the entry routes to.
C7_ExactlyOneSlot ==
    \A apex \in ApexEntries :
        task[apex].st = "done" =>
            LET populated == {p \in {<<CWD, apex \o ".avbpubkey">>, <<CWD, apex \o ".pubkey">>} :
                                p \in Range(task[apex].result) /\ exists(fs, p)}
            IN  populated = {IF apex = "com.android.vndk" THEN <<CWD, apex \o ".pubkey">>
                             ELSE <<CWD, apex \o ".avbpubkey">>}

\* C7 amended: the result of the apex generator always lists both public-key
\* paths, <name>.avbpubkey then <name>.pubkey; a generation writes only the
\* one the entry routes to, which exists afterwards, and when neither existed
\* at the call only that one exists afterwards; a skipped generation leaves
\* at least one of the two existing.
C7_BothListedOneWritten ==
    \A apex \in ApexEntries :
        LET avb == <<CWD, apex \o ".avbpubkey">>
            legacy == <<CWD, apex \o ".pubkey">>
            routed == IF apex = "com.android.vndk" THEN legacy ELSE avb
            other == IF apex = "com.android.vndk" THEN avb ELSE legacy
        IN  /\ other \notin written
            /\ task[apex].st = "done" =>
                 /\ task[apex].result =
                       << <<CWD, apex \o ".pem">>,
                          <<CWD, apex \o ".certificate.override.x509.pem">>,
                          <<CWD, apex \o ".certificate.override.pk8">>, avb, legacy >>
                 /\ exists(fs, routed) \/ exists(fs, other)
                 /\ ~task[apex].skipped =>
                       /\ routed \in written
                       /\ fs[routed].type = "avbpubkey"
                       /\ fs[other] = fs0[other]

\* A generation ends with both public-key files in place.
C7_Witness ==
    \E apex \in ApexEntries :
        /\ task[apex].st = "done"
        /\ ~task[apex].skipped
        /\ exists(fs, pubkey_file(apex))
        /\ exists(fs, avbpubkey_file(apex))

\* C8: whatever the order in which the tasks complete, the i-th element of
\* each result list is the result of the task of the i-th entry of its
\* catalog list, and generate_keys returns lists as long as the catalog lists.
C8_OrderPreserved ==
    /\ \A i \in 1..Len(platform_results) :
          /\ i <= Len(platform_keys)
          /\ platform_results[i] = task[platform_keys[i]].result
          /\ platform_results[i] = << <<CERTS_PATH, platform_keys[i] \o ".pem">>,
                                      <<CWD, platform_keys[i] \o ".x509.pem">>,
                                      <<CWD, platform_keys[i] \o ".pk8">> >>
    /\ \A i \in 1..Len(apex_results) :
          /\ i <= Len(apex_keys)
          /\ apex_results[i] = task[apex_keys[i]].result
          /\ apex_results[i][1] = <<CWD, apex_keys[i] \o ".pem">>
    /\ pc \in {"collect_apex", "shutdown", "android_bp", "makefile", "done"}
          => Len(platform_results) = Len(platform_keys)
    /\ pc \in {"shutdown", "android_bp", "makefile", "done"}
          => Len(apex_results) = Len(apex_keys)

\* generate_keys has returned although tasks completed out of submission order.
C8_Witness ==
    /\ overtaken
    /\ pc = "android_bp"
    /\ Len(platform_results) = 2
    /\ Len(apex_results) = 2

\* C9: when a task fails, no other task is cancelled or skipped: when the
\* program ends every task has finished, only the tasks that raised have
\* failed, and every other entry has a complete bundle.
C9_FailureIsolation ==
    /\ Cardinality({e \in Entries : task[e].st = "failed"}) <= nfail
    /\ pc \in {"done", "failed"} =>
          \A e \in Entries :
              /\ task[e].st \in {"done", "failed"}
              /\ task[e].st = "done" =>
                    /\ \A p \in RequiredPaths(e) : exists(fs, p)
                    /\ task[e].skipped \/ RequiredPaths(e) \subseteq written

\* The first submitted task failed and every other task generated its bundle.
C9_Witness ==
    /\ pc = "failed"
    /\ task[platform_keys[1]].st = "failed"
    /\ \A e \in Entries \ {platform_keys[1]} :
          task[e].st = "done" /\ ~task[e].skipped

\* C10: after the failure of a task the run still waits for all other tasks
\* and then still writes Android.bp and keys.mk.
C10_EmissionAfterFailure ==
    (pc \in {"done", "failed"} /\ \E e \in Entries : task[e].st = "failed") =>
        /\ \A e \in Entries : Finished(e)
        /\ android_bp_file \in written
        /\ mk_file \in written

\* C11: when the tasks of several entries fail in one run, the run ends
\* failed and the failure of every failing entry is surfaced, not only that
\* of the first failing entry in submission order.
C11_EveryFailureSurfaced ==
    pc = "failed" => raised = {e \in Entries : task[e].st = "failed"}

\* The output paths the claim derives from an entry's name.
C12_Outputs(n) ==
    IF n \in PlatformEntries
    THEN {<<CERTS_PATH, n \o ".pem">>, <<CWD, n \o ".x509.pem">>, <<CWD, n \o ".pk8">>}
    ELSE {<<CWD, n \o ".pem">>, <<CWD, n \o ".certificate.override.x509.pem">>,
          <<CWD, n \o ".certificate.override.pk8">>, <<CWD, n \o ".avbpubkey">>,
          <<CWD, n \o ".pubkey">>}

C13_Default ==
    [C |-> "US", ST |-> "California", L |-> "Mountain View", O |-> "Android",
     OU |-> "Android", CN |-> "Android", emailAddress |-> "android@android.com"]

\* C13: for each of the seven fields, subject_params without an override for
\* the field returns the default (as the one entry {1: value}), with an
\* override map holding the field it returns the override value, and this
\* holds for every call of any sequence of calls: a call without override
\* made after calls with overrides still returns the default, and calls with
\* the same arguments return the same value.
C13_SubjectResolution ==
    /\ \A i \in 1..Len(resolved) :
          LET c == resolved[i]
          IN  c.param \in DOMAIN C13_Default =>
                /\ c.outcome.kind = "return"
                /\ c.outcome.value =
                      IF c.param \in DOMAIN c.custom_param
                      THEN <<c.custom_param[c.param]>>
                      ELSE <<C13_Default[c.param]>>
    /\ \A i \in 1..Len(resolved) : \A j \in 1..Len(resolved) :
          (resolved[i].param = resolved[j].param
             /\ resolved[i].custom_param = resolved[j].custom_param)
          => resolved[i].outcome = resolved[j].outcome

\* CN is asked for with an override, then without one.
C13_Witness ==
    /\ Len(resolved) >= 2
    /\ resolved[1].param = "CN"
    /\ resolved[1].custom_param = [CN |-> "X"]
    /\ resolved[1].outcome.value = <<"X">>
    /\ resolved[2].param = "CN"
    /\ resolved[2].custom_param = None
    /\ resolved[2].outcome.value = <<"Android">>

\* C14: for every field name that is not one of the seven, with or without
\* an override map, subject_params fails with UnknownField and returns no
\* value.
C14_UnknownFieldRejected ==
    \A i \in 1..Len(resolved) :
        resolved[i].param \notin {"C", "ST", "L", "O", "OU", "CN", "emailAddress"} =>
            /\ resolved[i].outcome.kind = "raise"
            /\ resolved[i].outcome.error = "UnknownField"

\* The certificate path of entry e.
C15_Certificate(e) ==
    IF e \in PlatformEntries THEN <<CWD, e \o ".x509.pem">>
    ELSE <<CWD, e \o ".certificate.override.x509.pem">>

\* C15: every certificate a generator has written has its issuer equal to
\* its subject, serial number 1, a validity of exactly 10,000 days that starts
\* at the time of the generation, and the seven subject fields at their
\* defaults, except CN, which is the entry's name for an apex bundle and the
\* default 'Android' for a platform bundle.
C15_CertificateShape ==
    \A e \in Entries :
        LET c == fs[C15_Certificate(e)]
        IN  /\ c.type \in {"missing", "empty", "x509"}
            /\ c.type = "x509" =>
                 /\ c.issuer = c.subject
                 /\ c.serial = 1
                 /\ c.notAfter = c.notBefore + 10000 * 24 * 60 * 60
                 /\ c.key.name = e
                 /\ c.signed_by = c.key
                 /\ C15_Certificate(e) \in written => (c.notBefore = clock /\ c.key.run = run)
                 /\ C15_Certificate(e) \notin written => (c.notBefore < clock /\ c.key.run < run)
                 /\ c.subject =
                       [C |-> "US", ST |-> "California", L |-> "Mountain View",
                        O |-> "Android", OU |-> "Android",
                        CN |-> IF e \in ApexEntries THEN e ELSE "Android",
                        emailAddress |-> "android@android.com"]

\* An apex and a platform certificate are in place, written by different
\* invocations.
C15_Witness ==
    \E a \in ApexEntries : \E b \in PlatformEntries :
        /\ fs[apex_x509_file(a)].type = "x509"
        /\ fs[platform_x509_file(b)].type = "x509"
        /\ fs[apex_x509_file(a)].notBefore # fs[platform_x509_file(b)].notBefore

\* C16: in one run the directory of the platform keys is made before the
\* first task is submitted, and no configuration file is written before
\* every task has finished and its result has been collected; a run that
\* ends normally has written both configuration files.
C16_InvocationOrder ==
    /\ pc = "mkdir" => (written = {} /\ \A e \in Entries : task[e].st = "idle")
    /\ (\E e \in Entries : task[e].st # "idle") => certs_dir
    /\ pc = "submit_platform" => (certs_dir /\ written = {})
    /\ written \cap {<<CWD, "Android.bp">>, <<CWD, "keys.mk">>} # {} =>
          /\ \A e \in Entries : task[e].st = "done"
          /\ Len(platform_results) = Len(platform_keys)
          /\ Len(apex_results) = Len(apex_keys)
          /\ \A e \in Entries : \A p \in RequiredPaths(e) : exists(fs, p)
    /\ pc = "done" => {<<CWD, "Android.bp">>, <<CWD, "keys.mk">>} \subseteq written

\* A first run has generated every bundle and then written both
\* configuration files.
C16_Witness ==
    /\ run = 1
    /\ pc = "done"
    /\ BundlePaths \cap written # {}
    /\ fs[android_bp_file] = AndroidBp
    /\ fs[mk_file] = KeysMk

\* The filesystem after the generators were called on f for the entries of
\* the list todo, one call after the other.
RECURSIVE C17_OneAfterAnother(_, _)
C17_OneAfterAnother(f, todo) ==
    IF todo = <<>> THEN f
    ELSE C17_OneAfterAnother(
             IF Head(todo) \in PlatformEntries
             THEN generate_single_platform_key(f, Head(todo), run, clock)
             ELSE generate_single_apex_key(f, Head(todo), run, clock),
             Tail(todo))

\* C17: in a run, for every interleaving of the steps of the tasks, a file is
\* opened for writing by at most one task, the task of the entry it is
\* derived from; a file of an entry changes only through that entry's task,
\* also when tasks fail midway; the files of every entry whose task returned
\* are those a run of the tasks one after another leaves, and so is the whole
\* filesystem when every task returned.
C17_ParallelSafety ==
    LET seq == C17_OneAfterAnother(fs0, platform_keys \o apex_keys)
    IN  /\ \A p \in BundlePaths :
              /\ Cardinality(writers[p]) <= 1
              /\ \A e \in writers[p] : e \in Entries /\ p \in EntryPaths(e)
              /\ (writers[p] = {}) = (p \notin written)
        /\ \A e \in Entries : \A p \in EntryPaths(e) :
              /\ p \notin written => fs[p] = fs0[p]
              /\ task[e].st \in {"idle", "pending"} => p \notin written
              /\ fs[p] \in {fs0[p], seq[p], Empty}
              /\ task[e].st = "done" => fs[p] = seq[p]
        /\ (\A e \in Entries : task[e].st = "done") =>
              \A p \in BundlePaths : fs[p] = seq[p]

\* Tasks completed out of submission order, one task failed midway, and the
\* others generated their bundles.
C17_Witness ==
    /\ overtaken
    /\ pc = "failed"
    /\ \E e \in Entries :
          /\ task[e].st = "failed"
          /\ e \in partial
          /\ \A x \in Entries \ {e} : task[x].st = "done" /\ ~task[x].skipped

\* C18: with a pool of any size from 1 to MaxWorkers and more entries than
\* workers, when every step of a task terminates, the run eventually reaches
\* its end with every submitted task executed to its end (returned or
\* failed), generate_keys having returned or failed; and generate_keys is
\* never over while a submitted task is pending or running.
C18_Termination ==
    /\ [](pc \in {"android_bp", "makefile", "done", "failed"} =>
            \A e \in Entries : task[e].st \in {"done", "failed"})
    /\ <>(/\ pc \in {"done", "failed"}
          /\ \A e \in Entries : task[e].st \in {"done", "failed"})

\* Every worker is busy while a submitted task waits in the queue.
C18_Witness ==
    /\ Cardinality(Running) = workers
    /\ \E e \in Entries : task[e].st = "pending"
    /\ pc \in {"collect_platform", "collect_apex"}

\* C19: the existence check and the writes of a generator are not atomic.
\* When two invocations run the generator of the same entry on empty
\* directories, a call skips only if the other completed the bundle before
\* its check, and then the bundle comes from one key pair; once both have
\* returned every required file exists, so that the bundle is accepted as
\* present from then on, whatever its files derive from (C19_Witness is the
\* interleaving in which both pass the check and the files do not derive
\* from one key pair).
C19_RaceOnlyWhenOverlapping ==
    \A e \in Entries :
        (rival.st # "idle" /\ rival.name = e) =>
            /\ rival.skipped => (task[e].st = "done" /\ ~task[e].skipped)
            /\ task[e].skipped => (rival.st = "done" /\ ~rival.skipped)
            /\ (task[e].st = "done" /\ rival.st = "done") =>
                  /\ \A p \in RequiredPaths(e) : fs[p].type \notin {"missing", "empty"}
                  /\ (task[e].skipped \/ rival.skipped) => OneGeneration(fs, e)

\* Both calls passed the check and generated; every required file exists, so
\* the existence check accepts the bundle, but its files do not derive from
\* one key pair.
C19_Witness ==
    \E e \in Entries :
        /\ rival.st = "done" /\ rival.name = e /\ ~rival.skipped
        /\ task[e].st = "done" /\ ~task[e].skipped
        /\ \A p \in RequiredPaths(e) : exists(fs, p)
        /\ ~BundleMissing(fs, e)
        /\ \E p \in RequiredPaths(e) : \E q \in RequiredPaths(e) : fs[p].key # fs[q].key

\* C20: within a generation the private key is written first and the PKCS8
\* file last (platform: key, certificate, PKCS8; apex: key, public key,
\* certificate, PKCS8).  So for an entry none of whose files existed when the
\* run began, as long as the PKCS8 write has not started the PKCS8 file is
\* missing and the existence check finds the bundle absent, also when the
\* task stopped there; and a run that finds the PKCS8 file missing
\* regenerates the whole bundle from one new key.
C20_CommitOrder ==
    \A e \in Entries :
        LET plat == e \in PlatformEntries
            key == IF plat THEN <<CERTS_PATH, e \o ".pem">> ELSE <<CWD, e \o ".pem">>
            cert == IF plat THEN <<CWD, e \o ".x509.pem">>
                    ELSE <<CWD, e \o ".certificate.override.x509.pem">>
            pk8 == IF plat THEN <<CWD, e \o ".pk8">>
                   ELSE <<CWD, e \o ".certificate.override.pk8">>
            pub == IF e = "com.android.vndk" THEN <<CWD, e \o ".pubkey">>
                   ELSE <<CWD, e \o ".avbpubkey">>
        IN  /\ cert \in written => key \in written
            /\ pk8 \in written => cert \in written
            /\ ~plat => /\ pub \in written => key \in written
                        /\ cert \in written => pub \in written
            /\ ((\A p \in EntryPaths(e) : ~exists(fs0, p)) /\ pk8 \notin written) =>
                  /\ ~exists(fs, pk8)
                  /\ BundleMissing(fs, e)
            /\ (~exists(fs0, pk8) /\ task[e].st \notin {"idle", "pending"}) => Generates(e)
            /\ (~exists(fs0, pk8) /\ task[e].st = "done") =>
                  /\ OneGeneration(fs, e)
                  /\ fs[key].key.run = run

\* A task stopped after its private key was written and before its PKCS8
\* write started; the next run has regenerated the bundle.
C20_Witness ==
    /\ run = 2
    /\ \E e \in Entries :
          /\ \E p \in EntryPaths(e) : exists(fs0, p)
          /\ ~exists(fs0, IF e \in PlatformEntries THEN platform_pk8_file(e)
                          ELSE apex_pk8_file(e))
          /\ task[e].st = "done"
          /\ ~task[e].skipped
          /\ OneGeneration(fs, e)

====
